---- MODULE Spec2Model ----
(***************************************************************************)
(* mono-firefly-sync: the reconciliation engine of src/src/index.ts.        *)
(*                                                                         *)
(* The bank (monobank) and the ledger (Firefly III) are the environment;   *)
(* the process is the module-level code of index.ts: the two start-up      *)
(* loads, recover() run by the start-up IIFE, and the post('*') handler.   *)
(* Every action is one synchronous stretch of the code, from one await to  *)
(* the next.                                                               *)
(*                                                                         *)
(* Units.  Bank amounts are integers in minor units.  Ledger decimals      *)
(* (amount, current_balance: major units with a fraction) are kept in      *)
(* thousandths of the major unit, so one minor unit is 10 of them and      *)
(* Math.round(x * 100) is a real rounding.                                 *)
(***************************************************************************)
EXTENDS Integers, Sequences, FiniteSets, TLC

VARIABLES
    bank,             \* the bank: client-info accounts and each account's statement
    ledger,           \* the ledger: accounts and transactions (newest first)
    cache,            \* ./data/client-data.json
    clientData,       \* const clientData (index.ts:191)
    fireflyAccounts,  \* const fireflyAccounts (index.ts:192)
    proc,             \* the process: up, listening, run number
    rec,              \* recover(): position and locals
    reqs,             \* post('*') invocations in flight or finished, by delivery number
    posts,            \* every creation call issued to the ledger, in issue order
    faults            \* environment faults injected so far

vars == <<bank, ledger, cache, clientData, fireflyAccounts, proc, rec, reqs, posts, faults>>

----------------------------------------------------------------------------
(* Bounds of the model *)

\* page cap of the bank's statement endpoint; 500 at index.ts:304, scaled down
PageCap == 2
\* seconds in a calendar day (startOfDay/endOfDay, index.ts:257-258), scaled down
SecondsPerDay == 2
\* process runs
MaxRuns == 2
\* webhook deliveries per behaviour
MaxDeliveries == 2
\* injected faults (ledger 5xx, malformed bank response) per behaviour
MaxFaults == 1
\* gap entries of the anchor account in the recovery worlds
MaxGap == 2
\* page fetches of one account's walk the model follows
MaxFetches == 5
\* page size of the ledger's transaction list
LedgerPageSize == 2

----------------------------------------------------------------------------
(* Program constants *)

TRANSACTION_TAG == "monosync"
MonobankUrl == "https://api.monobank.ua"

\* a `to` that was not given (index.ts:284)
Undefined == -1
\* a null id and a null string of a ledger journal (index.ts:98-107)
NullId == 0
NullString == "null"
\* monobankToFireflyTransaction returning null (index.ts:199, 204)
Null == [null |-> TRUE]
\* ISO 4217 numeric codes the currency-codes package knows (980 = UAH)
KnownCurrencies == {980}

Min(a, b) == IF a < b THEN a ELSE b
Abs(a) == IF a < 0 THEN -a ELSE a

\* String(Math.abs(amount) / 100): minor units to a ledger decimal (index.ts:211)
MinorToDecimal(minor) == minor * 10
\* Math.round(x * 100) of a ledger decimal: halves round up (index.ts:267-270)
RoundTimes100(x) == (x + 5) \div 10

----------------------------------------------------------------------------
(* The bank *)

\* one statement entry (statementItemSchema, index.ts:73-81)
StatementItem(id, time, amount, balance, currencyCode) ==
    [id |-> id, time |-> time, amount |-> amount, balance |-> balance,
     currencyCode |-> currencyCode]

\* GET personal/statement/{account}/{from}[/{to}]: the entries of the range,
\* newest first, at most PageCap of them
GetMonobankStatements(accountId, from, to) ==
    LET all == IF accountId \in DOMAIN bank.statements
               THEN bank.statements[accountId] ELSE <<>>
        inRange == SelectSeq(all, LAMBDA s :
                        s.time >= from /\ (to = Undefined \/ s.time <= to))
    IN  SubSeq(inRange, 1, Min(Len(inRange), PageCap))

\* getMonobankClientData(): the cached list while the cache file is younger
\* than CLIENT_DATA_CACHE_LIFETIME, else the bank's list
GetMonobankClientData ==
    IF cache.exists /\ cache.fresh THEN cache.data ELSE [accounts |-> bank.accounts]

\* the cache file after getMonobankClientData(): rewritten on a fetch
CacheAfterGet ==
    IF cache.exists /\ cache.fresh THEN cache
    ELSE [exists |-> TRUE, fresh |-> TRUE, data |-> [accounts |-> bank.accounts]]

----------------------------------------------------------------------------
(* The ledger *)

\* GET v1/transactions, page n: its items, and whether it has links.next
LedgerPage(n) ==
    LET txs == ledger.transactions
        lo == (n - 1) * LedgerPageSize + 1
        hi == Min(Len(txs), n * LedgerPageSize)
    IN  [data |-> IF lo > hi THEN <<>> ELSE SubSeq(txs, lo, hi),
         next |-> Len(txs) > n * LedgerPageSize]

LedgerIban(accounts, id) ==
    LET hit == SelectSeq(accounts, LAMBDA a : a.id = id)
    IN  IF hit = <<>> THEN NullString ELSE hit[1].attributes.iban

\* the journal the ledger stores for a creation payload
JournalOf(accounts, p) ==
    LET src == IF "source_id" \in DOMAIN p THEN p.source_id ELSE NullId
        dst == IF "destination_id" \in DOMAIN p THEN p.destination_id ELSE NullId
    IN  [tags |-> p.tags, external_url |-> p.external_url, external_id |-> p.external_id,
         type |-> p.type, date |-> p.date, amount |-> p.amount,
         source_id |-> src, source_iban |-> LedgerIban(accounts, src),
         destination_id |-> dst, destination_iban |-> LedgerIban(accounts, dst)]

\* the transaction list with journal j added: newest date first, and among
\* equal dates the one created last first
InsertNewestFirst(txs, j) ==
    LET newer == SelectSeq(txs, LAMBDA t : t.date > j.date)
    IN  newer \o <<j>> \o SubSeq(txs, Len(newer) + 1, Len(txs))

\* the account list after journal j: the asset side's balance moves by the amount
BalancesAfter(accounts, j) ==
    [i \in 1..Len(accounts) |->
        IF j.type = "deposit" /\ accounts[i].id = j.destination_id
        THEN [accounts[i] EXCEPT !.attributes.current_balance = @ + j.amount]
        ELSE IF j.type = "withdrawal" /\ accounts[i].id = j.source_id
        THEN [accounts[i] EXCEPT !.attributes.current_balance = @ - j.amount]
        ELSE accounts[i]]

\* the ledger after it accepted POST v1/transactions with payload p
LedgerCreate(l, p) ==
    LET j == JournalOf(l.accounts, p)
    IN  [accounts |-> BalancesAfter(l.accounts, j),
         transactions |-> InsertNewestFirst(l.transactions, j)]

----------------------------------------------------------------------------
(* Transaction mapper and ledger writer *)

\* currencyCodes.number(code)!.code (index.ts:210)
CurrencyAlpha(code) == IF code = 980 THEN "UAH" ELSE "?"

\* clientData.accounts.find(account => account.id === accountId) (index.ts:197)
FindMonobankAccount(data, accountId) ==
    SelectSeq(data.accounts, LAMBDA a : a.id = accountId)

\* fireflyAccounts.find(account => account.attributes.iban === iban) (index.ts:202)
FindFireflyAccount(iban) ==
    SelectSeq(fireflyAccounts, LAMBDA a : a.attributes.iban = iban)

\* whether monobankToFireflyTransaction has both accounts (index.ts:197-205)
Resolves(data, accountId) ==
    /\ FindMonobankAccount(data, accountId) # <<>>
    /\ FindFireflyAccount(FindMonobankAccount(data, accountId)[1].iban) # <<>>

\* monobankToFireflyTransaction throws: currencyCodes.number() gave undefined
\* and `.code` is read of it, once both accounts are found (index.ts:210)
MapThrows(data, accountId, statementItem) ==
    /\ Resolves(data, accountId)
    /\ statementItem.currencyCode \notin KnownCurrencies

\* as Payload, with amount >= 0 for amount > 0
PayloadZeroDeposit(fireflyAccount, statementItem) ==
    [type |-> IF statementItem.amount >= 0 THEN "deposit" ELSE "withdrawal",
     date |-> statementItem.time,
     currency_code |-> CurrencyAlpha(statementItem.currencyCode),
     amount |-> MinorToDecimal(Abs(statementItem.amount)),
     external_id |-> statementItem.id,
     external_url |-> MonobankUrl,
     tags |-> {TRANSACTION_TAG}]
    @@ ((IF statementItem.amount >= 0 THEN "destination_id" ELSE "source_id")
            :> fireflyAccount.id)

\* the object literal of index.ts:207-218
Payload(fireflyAccount, statementItem) ==
    [type |-> IF statementItem.amount > 0 THEN "deposit" ELSE "withdrawal",
     date |-> statementItem.time,
     currency_code |-> CurrencyAlpha(statementItem.currencyCode),
     amount |-> MinorToDecimal(Abs(statementItem.amount)),
     external_id |-> statementItem.id,
     external_url |-> MonobankUrl,
     tags |-> {TRANSACTION_TAG}]
    @@ ((IF statementItem.amount > 0 THEN "destination_id" ELSE "source_id")
            :> fireflyAccount.id)

\* as MonobankToFireflyTransaction, were the date the time of the call (told
\* by the number of calls issued before) and not the statement's
MonobankToFireflyTransactionStamped(data, accountId, statementItem) ==
    IF ~Resolves(data, accountId) THEN Null
    ELSE [Payload(FindFireflyAccount(FindMonobankAccount(data, accountId)[1].iban)[1],
                  statementItem) EXCEPT !.date = @ + Len(posts)]

\* monobankToFireflyTransaction (index.ts:194-219), where it does not throw
MonobankToFireflyTransaction(data, accountId, statementItem) ==
    IF ~Resolves(data, accountId) THEN Null
    ELSE Payload(FindFireflyAccount(FindMonobankAccount(data, accountId)[1].iban)[1],
                 statementItem)

\* one creation call as createFireflyTransaction issues it (index.ts:223-231)
CreationCall(by, run, accountId, transaction) ==
    [by |-> by, run |-> run, account |-> accountId, transaction |-> transaction,
     status |-> "pending"]

\* the ledger validates the body: a null in `transactions` is refused (422)
LedgerAccepts(transaction) == transaction # Null

----------------------------------------------------------------------------
(* recover(): its synchronous stretches *)

RecoverOff ==
    [pc |-> "off", pageNo |-> 0, page |-> <<>>, next |-> FALSE, idx |-> 0,
     elig |-> <<>>, e |-> 0, startingStatement |-> Null, imported |-> {},
     from |-> 0, a |-> 0, to |-> Undefined, fetches |-> 0, statements |-> <<>>,
     s |-> 0, transaction |-> Null, post |-> 0, error |-> "none"]

DayStart(t) == (t \div SecondsPerDay) * SecondsPerDay
DayEnd(t) == DayStart(t) + SecondsPerDay - 1

\* the test of index.ts:243
IsOurs(firstJournal) ==
    TRANSACTION_TAG \in firstJournal.tags \/ firstJournal.external_url = MonobankUrl

\* eligableAccounts (index.ts:247-249)
EligibleAccounts(firstJournal) ==
    SelectSeq(clientData.accounts, LAMBDA account :
        account.iban = firstJournal.source_iban
        \/ account.iban = firstJournal.destination_iban)

\* fireflyAcccount (index.ts:261-263): the found account, in a sequence
AnchorFireflyAccount(firstJournal) ==
    IF firstJournal.type = "withdrawal"
    THEN SelectSeq(fireflyAccounts, LAMBDA it : it.id = firstJournal.source_id)
    ELSE SelectSeq(fireflyAccounts, LAMBDA it : it.id = firstJournal.destination_id)

\* as IsStartingStatement, without the comparison of the balances
IsStartingStatementAnyBalance(statement, firstJournal, account, fireflyAcccount) ==
    \/ /\ firstJournal.type = "withdrawal"
       /\ statement.amount = RoundTimes100(-firstJournal.amount)
       /\ account.iban = firstJournal.source_iban
    \/ /\ firstJournal.type = "deposit"
       /\ statement.amount = RoundTimes100(firstJournal.amount)
       /\ account.iban = firstJournal.destination_iban

\* the predicate of statements.find (index.ts:266-272)
IsStartingStatement(statement, firstJournal, account, fireflyAcccount) ==
    /\ statement.balance = RoundTimes100(fireflyAcccount.attributes.current_balance)
    /\ \/ /\ firstJournal.type = "withdrawal"
          /\ statement.amount = RoundTimes100(-firstJournal.amount)
          /\ account.iban = firstJournal.source_iban
       \/ /\ firstJournal.type = "deposit"
          /\ statement.amount = RoundTimes100(firstJournal.amount)
          /\ account.iban = firstJournal.destination_iban

\* statements.find(...) (index.ts:265-273): the matches, first one first
StartingStatements(statements, firstJournal, account) ==
    SelectSeq(statements, LAMBDA statement :
        IsStartingStatement(statement, firstJournal, account,
                            AnchorFireflyAccount(firstJournal)[1]))

\* the for-await loop from item i of the current page (index.ts:241-252):
\* the first item that is ours and has eligible accounts, or 0
RECURSIVE NextCandidate(_, _)
NextCandidate(page, i) ==
    IF i > Len(page) THEN 0
    ELSE IF IsOurs(page[i]) /\ EligibleAccounts(page[i]) # <<>> THEN i
    ELSE NextCandidate(page, i + 1)

\* as Scan, were the pagination not to follow links.next
ScanFirstPage(r, i) ==
    LET j == NextCandidate(r.page, i)
    IN  IF j > 0
        THEN [r EXCEPT !.pc = "anchor", !.idx = j,
                       !.elig = EligibleAccounts(r.page[j]), !.e = 1]
        ELSE [RecoverOff EXCEPT !.pc = "done"]

\* recover() after the loop reached item i of the current page: it awaits the
\* statements of the first eligible account, or the next page, or returns
Scan(r, i) ==
    LET j == NextCandidate(r.page, i)
    IN  IF j > 0
        THEN [r EXCEPT !.pc = "anchor", !.idx = j,
                       !.elig = EligibleAccounts(r.page[j]), !.e = 1]
        ELSE IF r.next
        THEN [r EXCEPT !.pc = "transactions", !.pageNo = @ + 1, !.page = <<>>,
                       !.idx = 0, !.elig = <<>>, !.e = 0]
        ELSE [RecoverOff EXCEPT !.pc = "done"]

\* as NextUnimported, without the test importedStatementIds.has(statement.id)
NextUnimportedUnchecked(statements, imported, k) ==
    IF k > Len(statements) THEN 0 ELSE k

\* the first statement from index k on that is not in importedStatementIds, or 0
RECURSIVE NextUnimported(_, _, _)
NextUnimported(statements, imported, k) ==
    IF k > Len(statements) THEN 0
    ELSE IF statements[k].id \notin imported THEN k
    ELSE NextUnimported(statements, imported, k + 1)

\* the inner loop from statement k of the current page (index.ts:289-308): it
\* awaits the mapping of the next unimported statement, or the next page, or
\* the next account's first page, or recover() returns
Process(r, k) ==
    LET j == NextUnimported(r.statements, r.imported, k)
    IN  IF j > 0
        THEN [r EXCEPT !.pc = "map", !.s = j,
                       !.imported = @ \cup {r.statements[j].id},
                       !.transaction = Null, !.post = 0]
        ELSE IF Len(r.statements) < PageCap
        THEN IF r.a < Len(clientData.accounts)
             THEN [r EXCEPT !.pc = "statements", !.a = @ + 1, !.to = Undefined,
                            !.fetches = 0, !.statements = <<>>, !.s = 0,
                            !.transaction = Null, !.post = 0]
             ELSE [r EXCEPT !.pc = "done", !.statements = <<>>, !.s = 0,
                            !.transaction = Null, !.post = 0]
        ELSE [r EXCEPT !.pc = "statements",
                       !.to = r.statements[Len(r.statements)].time,
                       !.statements = <<>>, !.s = 0,
                       !.transaction = Null, !.post = 0]

\* the page of statements arrived for the walk of account r.a (index.ts:287)
Fetched(r) ==
    Process([r EXCEPT !.fetches = @ + 1,
                      !.statements = GetMonobankStatements(clientData.accounts[r.a].id,
                                                           r.from, r.to)], 1)

\* recover() threw: the catch of the start-up IIFE logs the error
\* (index.ts:358-360)
Caught(r, error) == [r EXCEPT !.pc = "failed", !.error = error]

\* as OnRecoverError, were the call of recover() not in a try block: the
\* rejection is unhandled and ends the process
OnRecoverErrorUncaught(p) == [p EXCEPT !.up = FALSE, !.listening = FALSE]

\* the start-up IIFE after its first try block (index.ts:362-364): with a
\* webhookUrl in the configuration it calls setWebook, whose POST goes out
AfterRecover(p) ==
    IF p.webhookUrl THEN [p EXCEPT !.webhook = "pending", !.calls = @ + 1] ELSE p

\* the process after recover() threw: the error ends in that catch, the
\* process goes on
OnRecoverError(p) == AfterRecover(p)

\* the process after a step of recover() that left it in state r: the IIFE
\* goes on when recover() returned or threw
Settled(p, r) ==
    IF r.pc = "done" THEN AfterRecover(p)
    ELSE IF r.pc = "failed" THEN OnRecoverError(p)
    ELSE p

----------------------------------------------------------------------------
(* The process: start-up *)

\* node index.js up to the first await of recover(): the two loads of
\* index.ts:191-192, then the IIFE calls recover(), which asks for the first
\* page of ledger transactions
Start ==
    /\ ~proc.up
    /\ proc.run < MaxRuns
    /\ proc' = [proc EXCEPT !.up = TRUE, !.listening = FALSE, !.run = @ + 1,
                            !.webhook = "none", !.calls = 0]
    /\ clientData' = GetMonobankClientData
    /\ cache' = CacheAfterGet
    /\ fireflyAccounts' = ledger.accounts
    /\ rec' = [RecoverOff EXCEPT !.pc = "transactions", !.pageNo = 1]
    /\ UNCHANGED <<bank, ledger, reqs, posts, faults>>

\* fastify.listen resolves (index.ts:374): webhook calls are accepted
Listen ==
    /\ proc.up
    /\ ~proc.listening
    /\ proc' = [proc EXCEPT !.listening = TRUE]
    /\ UNCHANGED <<bank, ledger, cache, clientData, fireflyAccounts, rec, reqs, posts, faults>>

\* the bank accepted POST personal/webhook: setWebook returns, 'webhook set'
\* is logged (index.ts:364-366)
WebhookSet ==
    /\ proc.up
    /\ proc.webhook = "pending"
    /\ proc' = [proc EXCEPT !.webhook = "set"]
    /\ UNCHANGED <<bank, ledger, cache, clientData, fireflyAccounts, rec, reqs, posts, faults>>

\* POST personal/webhook failed: got asks again after calculateDelay() = 60 s
\* (index.ts:55-57) and the IIFE goes on waiting, or got gives up and the
\* error is caught and logged (index.ts:367-369)
WebhookFailed(retried) ==
    /\ proc.up
    /\ proc.webhook = "pending"
    /\ faults < MaxFaults
    /\ faults' = faults + 1
    /\ proc' = IF retried THEN proc ELSE [proc EXCEPT !.webhook = "failed"]
    /\ UNCHANGED <<bank, ledger, cache, clientData, fireflyAccounts, rec, reqs, posts>>

InFlight(d) == reqs[d].pc \in {"map", "create"}

\* the process is stopped (and may be started again) once recovery is over
\* and no request is in flight
Exit ==
    /\ proc.up
    /\ proc.run < MaxRuns
    /\ rec.pc \in {"done", "failed"}
    /\ \A d \in DOMAIN reqs : ~InFlight(d)
    /\ proc' = [proc EXCEPT !.up = FALSE, !.listening = FALSE]
    /\ rec' = RecoverOff
    /\ UNCHANGED <<bank, ledger, cache, clientData, fireflyAccounts, reqs, posts, faults>>

\* time passes: the cache file gets older than CLIENT_DATA_CACHE_LIFETIME
CacheExpires ==
    /\ cache.exists
    /\ cache.fresh
    /\ cache' = [cache EXCEPT !.fresh = FALSE]
    /\ UNCHANGED <<bank, ledger, clientData, fireflyAccounts, proc, rec, reqs, posts, faults>>

----------------------------------------------------------------------------
(* recover(): the actions *)

\* a page of v1/transactions arrives (index.ts:241)
RecoverTransactions ==
    /\ proc.up
    /\ rec.pc = "transactions"
    /\ rec' = Scan([rec EXCEPT !.page = LedgerPage(rec.pageNo).data,
                               !.next = LedgerPage(rec.pageNo).next], 1)
    /\ proc' = Settled(proc, rec')
    /\ UNCHANGED <<bank, ledger, cache, clientData, fireflyAccounts, reqs, posts, faults>>

\* index.ts:261-313 for one eligible account, given the statements of the day
AnchorStep(r, statements) ==
    LET firstJournal == r.page[r.idx]
        account == r.elig[r.e]
    IN  IF statements = <<>>
        THEN IF r.e < Len(r.elig) THEN [r EXCEPT !.e = @ + 1] ELSE Scan(r, r.idx + 1)
        ELSE IF AnchorFireflyAccount(firstJournal) = <<>>
        THEN Caught(r, "TypeError: attributes of undefined")
        ELSE LET found == StartingStatements(statements, firstJournal, account)
             IN  IF found = <<>>
                 THEN IF r.e < Len(r.elig) THEN [r EXCEPT !.e = @ + 1]
                      ELSE Scan(r, r.idx + 1)
                 ELSE [r EXCEPT !.pc = "statements",
                                !.startingStatement = found[1],
                                !.imported = {found[1].id},
                                !.from = found[1].time,
                                !.a = 1, !.to = Undefined]

\* the statements of the journal's day arrive for one eligible account
\* (index.ts:255-259)
RecoverAnchor ==
    /\ proc.up
    /\ rec.pc = "anchor"
    /\ rec' = AnchorStep(rec,
                GetMonobankStatements(rec.elig[rec.e].id,
                                      DayStart(rec.page[rec.idx].date),
                                      DayEnd(rec.page[rec.idx].date)))
    /\ proc' = Settled(proc, rec')
    /\ UNCHANGED <<bank, ledger, cache, clientData, fireflyAccounts, reqs, posts, faults>>

\* a page of statements arrives in the backfill (index.ts:287)
BackfillStatements ==
    /\ proc.up
    /\ rec.pc = "statements"
    /\ rec.fetches < MaxFetches
    /\ rec' = Fetched(rec)
    /\ proc' = Settled(proc, rec')
    /\ UNCHANGED <<bank, ledger, cache, clientData, fireflyAccounts, reqs, posts, faults>>

\* monobankToFireflyTransaction resolves or throws; on a result (a payload or
\* null) createFireflyTransaction is called with it (index.ts:295-301)
BackfillMap ==
    /\ proc.up
    /\ rec.pc = "map"
    /\ LET accountId == clientData.accounts[rec.a].id
           statement == rec.statements[rec.s]
           data == GetMonobankClientData
       IN  IF MapThrows(data, accountId, statement)
           THEN /\ rec' = Caught(rec, "TypeError: code of undefined")
                /\ proc' = OnRecoverError(proc)
                /\ posts' = posts
           ELSE /\ rec' = [rec EXCEPT
                              !.pc = "create",
                              !.transaction =
                                  MonobankToFireflyTransaction(data, accountId, statement),
                              !.post = Len(posts) + 1]
                /\ proc' = proc
                /\ posts' = Append(posts,
                              CreationCall("recover", proc.run, accountId,
                                  MonobankToFireflyTransaction(data, accountId, statement)))
    /\ cache' = CacheAfterGet
    /\ UNCHANGED <<bank, ledger, clientData, fireflyAccounts, reqs, faults>>

\* the ledger created the transaction (index.ts:301 returns)
BackfillCreated ==
    /\ proc.up
    /\ rec.pc = "create"
    /\ LedgerAccepts(rec.transaction)
    /\ ledger' = LedgerCreate(ledger, rec.transaction)
    /\ posts' = [posts EXCEPT ![rec.post].status = "created"]
    /\ rec' = Process(rec, rec.s + 1)
    /\ proc' = Settled(proc, rec')
    /\ UNCHANGED <<bank, cache, clientData, fireflyAccounts, reqs, faults>>

\* as BackfillCreateFailed, were the error of createFireflyTransaction
\* swallowed inside the loop: the backfill goes on with the next statement
BackfillCreateFailedGoesOn ==
    /\ proc.up
    /\ rec.pc = "create"
    /\ IF LedgerAccepts(rec.transaction) THEN faults < MaxFaults ELSE TRUE
    /\ faults' = IF LedgerAccepts(rec.transaction) THEN faults + 1 ELSE faults
    /\ posts' = [posts EXCEPT ![rec.post].status = "failed"]
    /\ rec' = Process(rec, rec.s + 1)
    /\ proc' = Settled(proc, rec')
    /\ UNCHANGED <<bank, ledger, cache, clientData, fireflyAccounts, reqs>>

\* the creation call failed: the body was refused, or the ledger is at fault;
\* createFireflyTransaction rethrows, recover() throws (index.ts:232-237)
BackfillCreateFailed ==
    /\ proc.up
    /\ rec.pc = "create"
    /\ IF LedgerAccepts(rec.transaction) THEN faults < MaxFaults ELSE TRUE
    /\ faults' = IF LedgerAccepts(rec.transaction) THEN faults + 1 ELSE faults
    /\ posts' = [posts EXCEPT ![rec.post].status = "failed"]
    /\ rec' = Caught(rec, "HTTPError")
    /\ proc' = OnRecoverError(proc)
    /\ UNCHANGED <<bank, ledger, cache, clientData, fireflyAccounts, reqs>>

\* a fetch of recover() fails: the ledger answers with an error, or a response
\* does not pass its schema (index.ts:151, 156-158)
RecoverFetchFailed ==
    /\ proc.up
    /\ rec.pc \in {"transactions", "anchor", "statements"}
    /\ faults < MaxFaults
    /\ faults' = faults + 1
    /\ rec' = Caught(rec, "fetch")
    /\ proc' = OnRecoverError(proc)
    /\ UNCHANGED <<bank, ledger, cache, clientData, fireflyAccounts, reqs, posts>>

----------------------------------------------------------------------------
(* post('*'): the webhook handler *)

\* where recover() is: searching the anchor, in the backfill, or over
Phase(pc) ==
    IF pc \in {"transactions", "anchor"} THEN "search"
    ELSE IF pc \in {"statements", "map", "create"} THEN "backfill"
    ELSE pc

\* a request body as the bank sends it
WebhookBody(type, accountId, statementItem) ==
    [type |-> type, data |-> [account |-> accountId, statementItem |-> statementItem]]

\* as BodyParses, without z.literal('StatementItem') on the type
BodyParsesAnyType(body) == DOMAIN body.data = {"account", "statementItem"}

\* the schema of index.ts:331-337 accepts the body
BodyParses(body) ==
    /\ body.type = "StatementItem"
    /\ DOMAIN body.data = {"account", "statementItem"}

\* post('*') is called with a body: parse throws and the call is answered with
\* an error, or the handler awaits the mapping (index.ts:330-344)
Receive(body) ==
    /\ proc.up
    /\ proc.listening
    /\ Len(reqs) < MaxDeliveries
    /\ reqs' = Append(reqs,
                  IF BodyParses(body)
                  THEN [type |-> body.type, account |-> body.data.account,
                        statementItem |-> body.data.statementItem,
                        run |-> proc.run, at |-> Phase(rec.pc), pc |-> "map",
                        seen |-> <<>>, waits |-> 0, transaction |-> Null, post |-> 0]
                  ELSE [type |-> body.type, account |-> body.data.account,
                        statementItem |-> Null,
                        run |-> proc.run, at |-> Phase(rec.pc), pc |-> "rejected",
                        seen |-> <<>>, waits |-> 0, transaction |-> Null, post |-> 0])
    /\ UNCHANGED <<bank, ledger, cache, clientData, fireflyAccounts, proc, rec, posts, faults>>

\* the bank calls the webhook for the newest statement of one of its accounts
Deliver(accountId) ==
    /\ \E i \in DOMAIN bank.accounts : bank.accounts[i].id = accountId
    /\ bank.statements[accountId] # <<>>
    /\ Receive(WebhookBody("StatementItem", accountId, bank.statements[accountId][1]))

\* the webhook is called with a body of another type, or with data that lacks
\* the statement
DeliverOther(type, accountId) ==
    IF type = "StatementItem"
    THEN Receive([type |-> type, data |-> [account |-> accountId]])
    ELSE Receive(WebhookBody(type, accountId, bank.statements[accountId][1]))

\* the refresh of the account list fails while a call awaits the mapping with
\* the cache file too old: got waits calculateDelay() = 60 s and asks again,
\* the call goes on waiting (index.ts:55-57, 140)
ClientInfoFetchFailed(d) ==
    /\ proc.up
    /\ reqs[d].pc = "map"
    /\ ~(cache.exists /\ cache.fresh)
    /\ faults < MaxFaults
    /\ faults' = faults + 1
    /\ reqs' = [reqs EXCEPT ![d].waits = @ + 1]
    /\ UNCHANGED <<bank, ledger, cache, clientData, fireflyAccounts, proc, rec, posts>>

\* the client opens the account a2 at the bank
OpenAccount ==
    /\ Len(bank.accounts) = 1
    /\ bank' = [bank EXCEPT !.accounts = @ \o <<[id |-> "a2", iban |-> "UA2"]>>]
    /\ UNCHANGED <<ledger, cache, clientData, fireflyAccounts, proc, rec, reqs, posts, faults>>

\* as LiveMap, were the handler to record the statement's id in the
\* importedStatementIds of the pass under way
LiveMapRecording(d) ==
    /\ proc.up
    /\ reqs[d].pc = "map"
    /\ LET data == GetMonobankClientData
       IN  IF MapThrows(data, reqs[d].account, reqs[d].statementItem)
           THEN /\ reqs' = [reqs EXCEPT ![d].pc = "error", ![d].seen = data.accounts]
                /\ posts' = posts
           ELSE /\ reqs' = [reqs EXCEPT
                              ![d].pc = "create",
                              ![d].seen = data.accounts,
                              ![d].transaction =
                                  MonobankToFireflyTransaction(data, reqs[d].account,
                                                               reqs[d].statementItem),
                              ![d].post = Len(posts) + 1]
                /\ posts' = Append(posts,
                              CreationCall("live", proc.run, reqs[d].account,
                                  MonobankToFireflyTransaction(data, reqs[d].account,
                                                               reqs[d].statementItem)))
    /\ cache' = CacheAfterGet
    /\ rec' = [rec EXCEPT !.imported = @ \cup {reqs[d].statementItem.id}]
    /\ UNCHANGED <<bank, ledger, clientData, fireflyAccounts, proc, faults>>

\* monobankToFireflyTransaction resolves or throws in the handler; on a result
\* createFireflyTransaction is called with it (index.ts:344-350)
LiveMap(d) ==
    /\ proc.up
    /\ reqs[d].pc = "map"
    /\ LET data == GetMonobankClientData
       IN  IF MapThrows(data, reqs[d].account, reqs[d].statementItem)
           THEN /\ reqs' = [reqs EXCEPT ![d].pc = "error", ![d].seen = data.accounts]
                /\ posts' = posts
           ELSE /\ reqs' = [reqs EXCEPT
                              ![d].pc = "create",
                              ![d].seen = data.accounts,
                              ![d].transaction =
                                  MonobankToFireflyTransaction(data, reqs[d].account,
                                                               reqs[d].statementItem),
                              ![d].post = Len(posts) + 1]
                /\ posts' = Append(posts,
                              CreationCall("live", proc.run, reqs[d].account,
                                  MonobankToFireflyTransaction(data, reqs[d].account,
                                                               reqs[d].statementItem)))
    /\ cache' = CacheAfterGet
    /\ UNCHANGED <<bank, ledger, clientData, fireflyAccounts, proc, rec, faults>>

\* the ledger created the transaction: the handler returns (200)
LiveCreated(d) ==
    /\ proc.up
    /\ reqs[d].pc = "create"
    /\ LedgerAccepts(reqs[d].transaction)
    /\ ledger' = LedgerCreate(ledger, reqs[d].transaction)
    /\ posts' = [posts EXCEPT ![reqs[d].post].status = "created"]
    /\ reqs' = [reqs EXCEPT ![d].pc = "ok"]
    /\ UNCHANGED <<bank, cache, clientData, fireflyAccounts, proc, rec, faults>>

\* the creation call failed: the handler throws (500)
LiveCreateFailed(d) ==
    /\ proc.up
    /\ reqs[d].pc = "create"
    /\ IF LedgerAccepts(reqs[d].transaction) THEN faults < MaxFaults ELSE TRUE
    /\ faults' = IF LedgerAccepts(reqs[d].transaction) THEN faults + 1 ELSE faults
    /\ posts' = [posts EXCEPT ![reqs[d].post].status = "failed"]
    /\ reqs' = [reqs EXCEPT ![d].pc = "error"]
    /\ UNCHANGED <<bank, ledger, cache, clientData, fireflyAccounts, proc, rec>>

----------------------------------------------------------------------------
(* The worlds the engine starts in: the bank and the ledger after earlier   *)
(* runs mirrored the statement s0 of account a1 (and t0 of a2), and the     *)
(* bank moved on while the process was down                                 *)

BankAccounts ==
    <<[id |-> "a1", iban |-> "UA1"], [id |-> "a2", iban |-> "UA2"]>>

FireflyAccount(id, iban) ==
    [id |-> id, attributes |-> [iban |-> iban, current_balance |-> 0]]

\* the time of s0: the first second of a day
AnchorTime == SecondsPerDay
GapTimes == AnchorTime .. (AnchorTime + 2)
GapIds == <<"s1", "s2", "s3", "s4">>
GapAmounts == <<-30, 20, -10, 40>>

\* a statement list (newest first) with one more statement, the bank keeping
\* the running balance
Extend(history, id, time, amount, currencyCode) ==
    <<StatementItem(id, time, amount,
                    (IF history = <<>> THEN 0 ELSE history[1].balance) + amount,
                    currencyCode)>> \o history

RECURSIVE ExtendAll(_, _, _)
ExtendAll(history, gap, k) ==
    IF k > Len(gap) THEN history
    ELSE ExtendAll(Extend(history, gap[k].id, gap[k].time, gap[k].amount,
                          gap[k].currencyCode), gap, k + 1)

\* gaps of account a1, oldest first: times do not decrease, ids and amounts go
\* by position, at most one statement has a currency the package does not know
Gaps1(maxGap) ==
    UNION {{[k \in 1..n |-> [id |-> GapIds[k], time |-> g[k].time,
                             amount |-> GapAmounts[k],
                             currencyCode |-> g[k].currencyCode]] :
              g \in {h \in [1..n -> [time : GapTimes, currencyCode : {980, 999}]] :
                        /\ \A i, j \in 1..n : i < j => h[i].time <= h[j].time
                        /\ Cardinality({i \in 1..n : h[i].currencyCode = 999}) <= 1}}
           : n \in 0..maxGap}

\* gaps of account a2: none, or one statement whose id may be one a1 uses too
Gaps2 ==
    {<<>>} \cup {<<[id |-> i, time |-> t, amount |-> 70, currencyCode |-> 980]>> :
                    i \in {"s1", "t1"}, t \in GapTimes}

\* a journal entered by hand: not ours, on an account outside the list
ManualJournal ==
    [tags |-> {}, external_url |-> NullString, external_id |-> NullString,
     type |-> "withdrawal", date |-> AnchorTime + 3, amount |-> 10,
     source_id |-> 9, source_iban |-> NullString,
     destination_id |-> NullId, destination_iban |-> NullString]

World(w) ==
    LET s0 == Extend(<<>>, "s0", AnchorTime, 100, 980)
        t0 == Extend(<<>>, "t0", AnchorTime + 1, 50, 980)
        accounts == <<FireflyAccount(1, "UA1")>>
                    \o (IF w.l2 THEN <<FireflyAccount(2, "UA2")>> ELSE <<>>)
        l0 == [accounts |-> accounts, transactions |-> <<>>]
        l1 == IF w.synced THEN LedgerCreate(l0, Payload(accounts[1], s0[1])) ELSE l0
        l2 == IF w.stale THEN LedgerCreate(l1, Payload(accounts[2], t0[1])) ELSE l1
        \* the ledger balance of a2's account moved since t0 was written
        l3 == IF w.stale
              THEN [l2 EXCEPT !.accounts[2].attributes.current_balance = @ + 4]
              ELSE l2
    IN  [bank |-> [accounts |-> BankAccounts,
                   statements |->
                       [a \in {"a1", "a2"} |->
                           IF a = "a1" THEN ExtendAll(s0, w.gap1, 1)
                           ELSE ExtendAll(IF w.stale THEN t0 ELSE <<>>, w.gap2, 1)]],
         ledger |-> [l3 EXCEPT !.transactions =
                        [i \in 1..w.manual |-> ManualJournal] \o @]]

WorldParams(gaps1, gaps2, manuals) ==
    {w \in [gap1 : gaps1, gap2 : gaps2, l2 : BOOLEAN, synced : BOOLEAN,
            stale : BOOLEAN, manual : manuals] :
        /\ w.stale => w.l2 /\ w.synced
        /\ \A i \in DOMAIN w.gap2 : w.stale => w.gap2[i].time > AnchorTime}

InitIn(params) ==
    \E w \in params :
        /\ bank = World(w).bank
        /\ ledger = World(w).ledger
        /\ cache = [exists |-> FALSE, fresh |-> FALSE, data |-> [accounts |-> <<>>]]
        /\ clientData = [accounts |-> <<>>]
        /\ fireflyAccounts = <<>>
        /\ proc = [up |-> FALSE, listening |-> FALSE, run |-> 0,
                   webhookUrl |-> TRUE, webhook |-> "none", calls |-> 0]
        /\ rec = RecoverOff
        /\ reqs = <<>>
        /\ posts = <<>>
        /\ faults = 0

----------------------------------------------------------------------------
(* Specifications *)

\* the engine over its whole life: runs, recovery, webhook calls
Init ==
    InitIn(WorldParams({g \in Gaps1(1) :
                            \A k \in DOMAIN g : g[k].time = AnchorTime + 1
                                                /\ g[k].currencyCode = 980},
                       {g \in Gaps2 : \A k \in DOMAIN g : g[k].id = "t1"
                                                /\ g[k].time = AnchorTime + 1},
                       {0}))

Next ==
    \/ Start
    \/ Listen
    \/ Exit
    \/ CacheExpires
    \/ RecoverTransactions
    \/ RecoverAnchor
    \/ BackfillStatements
    \/ BackfillMap
    \/ BackfillCreated
    \/ BackfillCreateFailed
    \/ RecoverFetchFailed
    \/ \E a \in {"a1", "a2"} : Deliver(a)
    \/ \E d \in DOMAIN reqs : LiveMap(d)
    \/ \E d \in DOMAIN reqs : LiveCreated(d)
    \/ \E d \in DOMAIN reqs : LiveCreateFailed(d)

Spec == Init /\ [][Next]_vars

\* recovery passes over every world, no webhook calls
InitRecover == InitIn(WorldParams(Gaps1(MaxGap), Gaps2, 0..(LedgerPageSize + 1)))

NextRecover ==
    \/ Start
    \/ Exit
    \/ RecoverTransactions
    \/ RecoverAnchor
    \/ BackfillStatements
    \/ BackfillMap
    \/ BackfillCreated
    \/ BackfillCreateFailed
    \/ RecoverFetchFailed

SpecRecover == InitRecover /\ [][NextRecover]_vars

\* start-up: recover(), fastify.listen and the registration of the webhook,
\* with and without a webhookUrl in the configuration
InitStartup ==
    \E w \in WorldParams(Gaps1(1), {<<>>}, {0}), url \in BOOLEAN :
        /\ bank = World(w).bank
        /\ ledger = World(w).ledger
        /\ cache = [exists |-> FALSE, fresh |-> FALSE, data |-> [accounts |-> <<>>]]
        /\ clientData = [accounts |-> <<>>]
        /\ fireflyAccounts = <<>>
        /\ proc = [up |-> FALSE, listening |-> FALSE, run |-> 0,
                   webhookUrl |-> url, webhook |-> "none", calls |-> 0]
        /\ rec = RecoverOff
        /\ reqs = <<>>
        /\ posts = <<>>
        /\ faults = 0

NextStartup ==
    \/ Start
    \/ Listen
    \/ Exit
    \/ RecoverTransactions
    \/ RecoverAnchor
    \/ BackfillStatements
    \/ BackfillMap
    \/ BackfillCreated
    \/ BackfillCreateFailed
    \/ RecoverFetchFailed
    \/ WebhookSet
    \/ \E retried \in BOOLEAN : WebhookFailed(retried)

SpecStartup == InitStartup /\ [][NextStartup]_vars

\* the webhook handler and the account directory: one statement newer than s0
\* on a1 (any sign of amount, known or unknown currency), one on a2, which
\* the client has at the bank from the start or opens later; recover() is
\* left waiting for the ledger
LiveAmounts == {-30, 0, 20}

LiveGaps1 ==
    {<<[id |-> "s1", time |-> AnchorTime + 1, amount |-> m, currencyCode |-> c]>> :
        m \in LiveAmounts, c \in {980, 999}}

LiveGaps2 ==
    {<<[id |-> "t1", time |-> AnchorTime + 1, amount |-> 70, currencyCode |-> 980]>>}

InitLive ==
    \E w \in WorldParams(LiveGaps1, LiveGaps2, {0}), opened \in BOOLEAN :
        /\ bank = [World(w).bank EXCEPT
                      !.accounts = IF opened THEN @ ELSE SubSeq(@, 1, 1)]
        /\ ledger = World(w).ledger
        /\ cache = [exists |-> FALSE, fresh |-> FALSE, data |-> [accounts |-> <<>>]]
        /\ clientData = [accounts |-> <<>>]
        /\ fireflyAccounts = <<>>
        /\ proc = [up |-> FALSE, listening |-> FALSE, run |-> 0,
                   webhookUrl |-> TRUE, webhook |-> "none", calls |-> 0]
        /\ rec = RecoverOff
        /\ reqs = <<>>
        /\ posts = <<>>
        /\ faults = 0

NextLive ==
    \/ Start
    \/ Listen
    \/ CacheExpires
    \/ OpenAccount
    \/ \E a \in {"a1", "a2"} : Deliver(a)
    \/ \E type \in {"StatementItem", "Ping"} : DeliverOther(type, "a1")
    \/ \E d \in DOMAIN reqs : ClientInfoFetchFailed(d)
    \/ \E d \in DOMAIN reqs : LiveMap(d)
    \/ \E d \in DOMAIN reqs : LiveCreated(d)
    \/ \E d \in DOMAIN reqs : LiveCreateFailed(d)

SpecLive == InitLive /\ [][NextLive]_vars

----------------------------------------------------------------------------
(* What the claims speak of *)

IbanOf(accountId) ==
    LET hit == SelectSeq(bank.accounts, LAMBDA a : a.id = accountId)
    IN  IF hit = <<>> THEN NullString ELSE hit[1].iban

\* the ledger holds an account for the bank account
HasLedgerAccount(accountId) ==
    \E i \in DOMAIN ledger.accounts :
        ledger.accounts[i].attributes.iban = IbanOf(accountId)

\* the ledger transactions this system created for a statement of an account
CreatedFor(accountId, id) ==
    {i \in DOMAIN ledger.transactions :
        LET j == ledger.transactions[i]
        IN  /\ IsOurs(j)
            /\ j.external_id = id
            /\ IbanOf(accountId) \in {j.source_iban, j.destination_iban}}

\* the creation calls of the pass of a run for a statement of an account
RecoverCalls(run, accountId, id) ==
    {i \in DOMAIN posts :
        /\ posts[i].by = "recover"
        /\ posts[i].run = run
        /\ posts[i].account = accountId
        /\ posts[i].transaction # Null
        /\ posts[i].transaction.external_id = id}

\* the statements of an account from a time on
StatementsFrom(accountId, from) ==
    {bank.statements[accountId][k] : k \in
        {i \in DOMAIN bank.statements[accountId] :
            bank.statements[accountId][i].time >= from}}

\* the backfill of the current pass has begun / ran to its end
InBackfill == rec.startingStatement # Null
BackfillDone == rec.pc = "done" /\ InBackfill

\* C1: the ledger holds at most one transaction of this system for any
\* statement entry (bank account, entry id), whatever runs, recovery passes
\* and webhook deliveries took place
C1_AtMostOneTransactionPerEntry ==
    \A a \in DOMAIN bank.statements :
        \A k \in DOMAIN bank.statements[a] :
            Cardinality(CreatedFor(a, bank.statements[a][k].id)) <= 1

\* the pass of run 1 was aborted by a ledger write error after it had written
\* some entry
AbortedPartWay ==
    /\ \E i \in DOMAIN posts :
          posts[i].by = "recover" /\ posts[i].run = 1 /\ posts[i].status = "created"
    /\ \E i \in DOMAIN posts :
          /\ posts[i].by = "recover" /\ posts[i].run = 1
          /\ posts[i].status = "failed" /\ posts[i].transaction # Null

\* C2: when the pass of the first run aborted part-way on a ledger write
\* error and the pass of the next run completed without error, every
\* statement newer than the first anchor (s0) that the ledger can take is in
\* the ledger
C2_NextRunRecoversTheGap ==
    (AbortedPartWay /\ proc.run = 2 /\ rec.pc = "done") =>
        \A a \in DOMAIN bank.statements :
            \A st \in StatementsFrom(a, AnchorTime) :
                (HasLedgerAccount(a) /\ st.currencyCode \in KnownCurrencies)
                    => CreatedFor(a, st.id) # {}

\* C3: no creation call is ever issued for a Skip (null) of the mapper,
\* neither by the backfill nor by the webhook handler
C3_SkipNeverReachesWriter ==
    \A i \in DOMAIN posts : posts[i].transaction # Null

\* C4: when the backfill has run to its end, every statement of every account
\* with a time from the anchor's on, but the anchor itself, was submitted to
\* the ledger writer exactly once in this pass (if its account resolves)
C4_BackfillCoversEveryAccount ==
    BackfillDone =>
        \A a \in DOMAIN bank.statements :
            \A st \in StatementsFrom(a, rec.startingStatement.time) :
                (HasLedgerAccount(a)
                 /\ ~(a = rec.elig[rec.e].id /\ st.id = rec.startingStatement.id))
                    => Cardinality(RecoverCalls(proc.run, a, st.id)) = 1

\* C7: a statement whose currency code has no alphabetic code gets no ledger
\* write, and the error it raises does not abort the pass
C7_UnknownCurrencyDoesNotAbort ==
    /\ \A i \in DOMAIN posts :
          posts[i].transaction # Null =>
              posts[i].transaction.currency_code # CurrencyAlpha(999)
    /\ ~(rec.pc = "failed" /\ rec.error = "TypeError: code of undefined")

\* C10: webhook events are written one at a time in the order delivered:
\* when the creation call of a later delivery has been issued, the call of
\* every earlier delivery of the run was issued before it and has completed
C10_LiveWritesInDeliveryOrder ==
    \A d1, d2 \in DOMAIN reqs :
        (d1 < d2 /\ reqs[d1].run = reqs[d2].run /\ reqs[d2].post > 0) =>
            /\ reqs[d1].pc \in {"ok", "error"}
            /\ reqs[d1].post < reqs[d2].post

\* the walk of one account as the backfill runs it from state r, which awaits
\* a page of that account, every mapping and creation succeeding: the
\* statements handed to the mapper, in order, and whether the walk came to
\* its end within `fuel` fetches
RECURSIVE Drain(_, _)
Drain(r, yielded) ==
    IF r.pc = "map"
    THEN Drain(Process(r, r.s + 1), Append(yielded, r.statements[r.s]))
    ELSE [rec |-> r, yielded |-> yielded]

RECURSIVE Walk(_, _, _, _)
Walk(r, a, yielded, fuel) ==
    IF r.pc # "statements" \/ r.a # a
    THEN [finished |-> TRUE, yielded |-> yielded]
    ELSE IF fuel = 0
    THEN [finished |-> FALSE, yielded |-> yielded]
    ELSE Walk(Drain(Fetched(r), yielded).rec, a,
              Drain(Fetched(r), yielded).yielded, fuel - 1)

\* the walk of account rec.a is about to start
WalkStarts == rec.pc = "statements" /\ rec.fetches = 0

\* the statements of the range of the account being walked
WalkRange == StatementsFrom(clientData.accounts[rec.a].id, rec.from)

\* C5: the page walk of an account hands every statement of the range to the
\* processing exactly once (all but those whose id the pass has seen before
\* the walk, as the anchor), whatever the timestamps are: it comes to its end,
\* and nothing is handed over twice or left out
C5_PaginationComplete ==
    WalkStarts =>
        LET w == Walk(rec, rec.a, <<>>, Cardinality(WalkRange) + 2)
        IN  /\ w.finished
            /\ \A x, y \in DOMAIN w.yielded : x # y => w.yielded[x] # w.yielded[y]
            /\ {w.yielded[x] : x \in DOMAIN w.yielded}
                   = {st \in WalkRange : st.id \notin rec.imported}

\* C6: the paging loop of an account ends: every page but the last brings a
\* statement the walk had not seen, so the walk of a range of n statements
\* never asks for more than n + 1 pages
C6_PagingLoopTerminates ==
    rec.pc \in {"statements", "map", "create"} =>
        rec.fetches <= Cardinality(WalkRange) + 1

\* position in the ledger's list of the journal recover() examines
JournalIndex == (rec.pageNo - 1) * LedgerPageSize + rec.idx

OursIndexes ==
    {i \in DOMAIN ledger.transactions : IsOurs(ledger.transactions[i])}

FirstOf(S) == CHOOSE i \in S : \A k \in S : i <= k

\* the anchor is found and the backfill has not asked for a page yet
BackfillStarts == rec.pc = "statements" /\ rec.a = 1 /\ rec.fetches = 0

\* C8: only the first journal of the ledger's list that is ours is tried as
\* the anchor: whenever a backfill starts, its anchor is that journal (if that
\* journal yields no match, the pass ends without backfill; older journals
\* that are ours are not tried)
C8_OnlyFirstOursIsTried ==
    BackfillStarts => JournalIndex = FirstOf(OursIndexes)

\* C9: an error thrown by recover() does not end the process, and the webhook
\* handler goes on as before: the server starts or keeps listening, calls are
\* accepted, every call in flight can take its next step, and every call
\* answered 200 has its transaction in the ledger
C9_RecoveryErrorsAreCaught ==
    rec.pc = "failed" =>
        /\ proc.up
        /\ ~proc.listening => ENABLED Listen
        /\ \A a \in DOMAIN bank.statements :
              (proc.listening /\ Len(reqs) < MaxDeliveries /\ bank.statements[a] # <<>>)
                  => ENABLED Deliver(a)
        /\ \A d \in DOMAIN reqs :
              /\ reqs[d].pc = "map" => ENABLED LiveMap(d)
              /\ (reqs[d].pc = "create" /\ LedgerAccepts(reqs[d].transaction))
                    => ENABLED LiveCreated(d)
              /\ reqs[d].pc = "ok"
                    => CreatedFor(reqs[d].account, reqs[d].statementItem.id) # {}

\* a call delivered after recover() failed was mapped and written
C9_WrittenAfterFailure ==
    /\ rec.pc = "failed"
    /\ \E d \in DOMAIN reqs :
          /\ reqs[d].run = proc.run
          /\ reqs[d].at = "failed"
          /\ reqs[d].pc = "ok"

\* recover() is in its backfill
BackfillUnderWay == Phase(rec.pc) = "backfill"

\* C11: webhook calls are not serialized against the backfill: while the
\* backfill is under way a call in flight can take its next step (be mapped,
\* be written) at once, and no step of a webhook call touches recover()'s
\* state, importedStatementIds included
C11_LiveNotSerializedAgainstBackfill ==
    /\ [](BackfillUnderWay =>
            \A d \in DOMAIN reqs :
                /\ reqs[d].pc = "map" => ENABLED LiveMap(d)
                /\ (reqs[d].pc = "create" /\ LedgerAccepts(reqs[d].transaction))
                      => ENABLED LiveCreated(d))
    /\ [][reqs' # reqs => rec' = rec]_vars

\* the backfill and a webhook call that came during it have both issued a
\* creation call for the same statement, the webhook's between two of the
\* backfill's
C11_BothIssuedCreation ==
    \E i, j, k \in DOMAIN posts :
        /\ i < j /\ j < k
        /\ posts[i].by = "recover" /\ posts[k].by = "recover"
        /\ posts[j].by = "live"
        /\ posts[i].run = proc.run /\ posts[j].run = proc.run /\ posts[k].run = proc.run
        /\ posts[j].transaction # Null /\ posts[k].transaction # Null
        /\ posts[j].account = posts[k].account
        /\ posts[j].transaction.external_id = posts[k].transaction.external_id
        /\ \E d \in DOMAIN reqs : reqs[d].post = j /\ reqs[d].at = "backfill"

\* the creation calls of the pass of the current run that carry a payload
PassCalls ==
    {i \in DOMAIN posts :
        posts[i].by = "recover" /\ posts[i].run = proc.run /\ posts[i].transaction # Null}

\* recover() hands a statement to the mapper in this step
MapsStatement == rec' # rec /\ rec'.pc = "map"

\* C12: in one pass every statement id is mapped and submitted at most once:
\* a statement handed to the mapper has an id that was not in
\* importedStatementIds and is in it from then on, whatever the mapping gives
\* (ids never leave the set during the pass); no two creation calls of the
\* pass carry the same id; the anchor's id is in the set from the start and no
\* call of the pass carries it
C12_AtMostOncePerPass ==
    /\ [][MapsStatement =>
            /\ rec'.statements[rec'.s].id \notin rec.imported
            /\ rec'.statements[rec'.s].id \in rec'.imported]_vars
    /\ [][(BackfillUnderWay /\ rec'.pc # "off") => rec.imported \subseteq rec'.imported]_vars
    /\ [](\A i, j \in PassCalls :
            i # j => posts[i].transaction.external_id # posts[j].transaction.external_id)
    /\ [](InBackfill =>
            /\ rec.startingStatement.id \in rec.imported
            /\ \A i \in PassCalls :
                  posts[i].transaction.external_id # rec.startingStatement.id)

\* the pass ran to its end over two accounts that both returned a statement
\* with the same id (and over the anchor, which its own page returned), and
\* one call carries that id
C12_IdReturnedTwice ==
    /\ BackfillDone
    /\ \E s1 \in StatementsFrom("a1", rec.from), s2 \in StatementsFrom("a2", rec.from) :
          /\ s1.id = s2.id
          /\ Cardinality({i \in PassCalls : posts[i].transaction.external_id = s1.id}) = 1

\* no journal of the ledger bears the tag or the marker
ColdStart == OursIndexes = {}

\* C13: with no journal that is ours in the ledger, recover() asks the bank
\* for no statements and issues no creation call; it pages through the whole
\* transaction list, one page after the other, and returns when the last page
\* has come
C13_ColdStart ==
    /\ []((ColdStart /\ proc.up) =>
            /\ rec.pc \in {"transactions", "done", "failed"}
            /\ \A i \in DOMAIN posts :
                  ~(posts[i].by = "recover" /\ posts[i].run = proc.run))
    /\ [][(ColdStart /\ rec.pc = "transactions" /\ rec'.pc = "transactions")
            => rec'.pageNo = rec.pageNo + 1 /\ LedgerPage(rec.pageNo).next]_vars
    /\ [][(ColdStart /\ rec.pc # "done" /\ rec'.pc = "done")
            => rec.pc = "transactions" /\ ~LedgerPage(rec.pageNo).next]_vars

\* recover() returned on a cold start after more than one page, the bank
\* holding statements the ledger has not
C13_ColdStartScanned ==
    /\ ColdStart
    /\ rec.pc = "done"
    /\ Len(ledger.transactions) > LedgerPageSize
    /\ Len(bank.statements["a1"]) > 1

\* the journal under examination, the candidate account asked, and the
\* statements of the journal's day the bank returns for it
ExaminedJournal == rec.page[rec.idx]
AskedAccount == rec.elig[rec.e]
DayStatements ==
    GetMonobankStatements(AskedAccount.id, DayStart(ExaminedJournal.date),
                          DayEnd(ExaminedJournal.date))

\* the ledger account of the journal's own side, as loaded at start-up
SideBalance(firstJournal) ==
    LET id == IF firstJournal.type = "withdrawal" THEN firstJournal.source_id
              ELSE firstJournal.destination_id
        hit == SelectSeq(fireflyAccounts, LAMBDA it : it.id = id)
    IN  hit[1].attributes.current_balance

\* the conditions of the claim on an entry
AgreesWithJournal(statement, firstJournal, account) ==
    /\ statement.balance = RoundTimes100(SideBalance(firstJournal))
    /\ firstJournal.type \in {"withdrawal", "deposit"}
    /\ firstJournal.type = "withdrawal" =>
          /\ statement.amount = -RoundTimes100(firstJournal.amount)
          /\ account.iban = firstJournal.source_iban
    /\ firstJournal.type = "deposit" =>
          /\ statement.amount = RoundTimes100(firstJournal.amount)
          /\ account.iban = firstJournal.destination_iban

AgreeingEntries ==
    {x \in DOMAIN DayStatements :
        AgreesWithJournal(DayStatements[x], ExaminedJournal, AskedAccount)}

\* C14: when the statements of the journal's day arrive for a candidate
\* account and hold an entry that agrees with the journal (balance, signed
\* amount, IBAN side), that entry (the first such of the list) becomes the
\* anchor and the backfill starts from its time; if no entry agrees, none is
\* selected
C14_AnchorMatching ==
    [][(rec.pc = "anchor" /\ rec' # rec /\ rec'.pc # "failed") =>
          IF AgreeingEntries # {}
          THEN /\ rec'.pc = "statements"
               /\ rec'.startingStatement = DayStatements[FirstOf(AgreeingEntries)]
               /\ rec'.from = DayStatements[FirstOf(AgreeingEntries)].time
          ELSE /\ rec'.pc \in {"anchor", "transactions", "done"}
               /\ rec'.startingStatement = Null]_vars

\* a withdrawal journal was matched and the backfill starts from its entry
C14_WithdrawalAnchored ==
    /\ BackfillStarts
    /\ ExaminedJournal.type = "withdrawal"
    /\ rec.startingStatement.amount = -RoundTimes100(ExaminedJournal.amount)
    /\ rec.from = rec.startingStatement.time

\* the refresh of the account list fails for call d in this step
RefreshFails(d) == d \in DOMAIN reqs' /\ reqs'[d].waits > reqs[d].waits

\* C15: when the cache file exists but is too old and the refresh from the
\* bank fails, the resolution goes on with the list of the file: the call is
\* not left waiting and does not fail, the list it resolved with is the
\* cached one, and the cache file is unchanged
C15_StaleCacheReused ==
    [][\A d \in DOMAIN reqs :
          (RefreshFails(d) /\ cache.exists) =>
              /\ reqs'[d].pc # "map"
              /\ reqs'[d].seen = cache.data.accounts
              /\ cache' = cache]_vars

\* a creation call fails in this step
CallFails(i) == posts[i].status = "pending" /\ posts'[i].status = "failed"

\* C16: a creation call is issued once per invocation and a failed one is not
\* tried again: the failure leaves the ledger as it is and stays a failure;
\* in the backfill it ends the pass (recover() threw, no later call of that
\* pass exists); in the webhook handler the call it belongs to, and only that
\* one, ends in an error
C16_WriterFailureHandling ==
    /\ [][\A i \in DOMAIN posts :
            /\ CallFails(i) => ledger' = ledger /\ Len(posts') = Len(posts)
            /\ posts[i].status = "failed" => posts'[i] = posts[i]]_vars
    /\ [](\A i \in DOMAIN posts :
            (posts[i].by = "recover" /\ posts[i].status = "failed") =>
                /\ (proc.up /\ posts[i].run = proc.run)
                      => rec.pc = "failed" /\ rec.error = "HTTPError" /\ rec.post = i
                /\ \A k \in DOMAIN posts :
                      (posts[k].by = "recover" /\ posts[k].run = posts[i].run) => k <= i)
    /\ [](\A i \in DOMAIN posts :
            posts[i].by = "live" =>
                /\ Cardinality({d \in DOMAIN reqs : reqs[d].post = i}) = 1
                /\ \A d \in DOMAIN reqs :
                      reqs[d].post = i =>
                          /\ posts[i].status = "failed" <=> reqs[d].pc = "error"
                          /\ posts[i].status = "created" <=> reqs[d].pc = "ok"
                          /\ posts[i].status = "pending" <=> reqs[d].pc = "create")

\* a creation call of the backfill failed with statements of the gap still
\* unwritten, and one of a webhook call failed
C16_BothFailed ==
    /\ rec.pc = "failed" /\ rec.error = "HTTPError"
    /\ \E d \in DOMAIN reqs :
          reqs[d].run = proc.run /\ reqs[d].pc = "error" /\ reqs[d].post > 0
    /\ \E a \in DOMAIN bank.statements :
          \E st \in StatementsFrom(a, rec.from) :
              st.id \notin rec.imported

\* call d went through the mapper
Mapped(d) == reqs[d].pc \in {"create", "ok", "error"}

\* what the mapper gave for call d: it threw, or returned null or a payload
Outcome(d) == IF reqs[d].post = 0 THEN "threw" ELSE reqs[d].transaction

\* two calls of one run for the same account and statement
SamePair(d1, d2) ==
    /\ Mapped(d1) /\ Mapped(d2)
    /\ reqs[d1].run = reqs[d2].run
    /\ reqs[d1].account = reqs[d2].account
    /\ reqs[d1].statementItem = reqs[d2].statementItem

\* C17 as stated: mapping the same (account, statement) twice gives the same
\* result, whatever happened between the two, a refresh of the account list
\* included
C17_MappingDeterministic ==
    \A d1, d2 \in DOMAIN reqs : SamePair(d1, d2) => Outcome(d1) = Outcome(d2)

\* C17 as the code has it: mapping the same (account, statement) twice gives
\* the same result when both mappings got the same account list from
\* getMonobankClientData()
C17_MappingDeterministicOnList ==
    \A d1, d2 \in DOMAIN reqs :
        (SamePair(d1, d2) /\ reqs[d1].seen = reqs[d2].seen) => Outcome(d1) = Outcome(d2)

\* the same pair was mapped twice to a payload, on the same account list
C17_MappedTwice ==
    \E d1, d2 \in DOMAIN reqs :
        /\ d1 < d2
        /\ SamePair(d1, d2)
        /\ reqs[d1].seen = reqs[d2].seen
        /\ reqs[d1].transaction # Null
        /\ reqs[d1].post > 0 /\ reqs[d2].post > reqs[d1].post

\* the payload bears the tag and the marker
BearsProvenance(transaction) ==
    /\ transaction # Null
    /\ TRANSACTION_TAG \in transaction.tags
    /\ transaction.external_url = MonobankUrl

\* C18: every creation call sent to the ledger carries the tag, the marker and,
\* as external_id, the id of the statement it was mapped from
C18_EveryCallBearsProvenance ==
    /\ \A i \in DOMAIN posts : BearsProvenance(posts[i].transaction)
    /\ \A d \in DOMAIN reqs :
          reqs[d].post > 0 =>
              posts[reqs[d].post].transaction.external_id = reqs[d].statementItem.id
    /\ rec.pc = "create" =>
          posts[rec.post].transaction.external_id = rec.statements[rec.s].id

\* the ids of the ledger accounts (as loaded at start-up) with the IBAN of
\* the bank account
ResolvedIds(accountId) ==
    {fireflyAccounts[i].id : i \in
        {k \in DOMAIN fireflyAccounts :
            fireflyAccounts[k].attributes.iban = IbanOf(accountId)}}

\* the payload of a statement is a deposit into / a withdrawal from the
\* resolved account, of the unsigned amount in major units (payload amounts
\* are in thousandths, statement amounts in hundredths)
WellFormedFor(transaction, accountId, statementItem) ==
    /\ transaction.type = IF statementItem.amount > 0 THEN "deposit" ELSE "withdrawal"
    /\ transaction.type = "deposit" =>
          /\ "destination_id" \in DOMAIN transaction
          /\ "source_id" \notin DOMAIN transaction
          /\ transaction.destination_id \in ResolvedIds(accountId)
    /\ transaction.type = "withdrawal" =>
          /\ "source_id" \in DOMAIN transaction
          /\ "destination_id" \notin DOMAIN transaction
          /\ transaction.source_id \in ResolvedIds(accountId)
    /\ transaction.amount >= 0
    /\ transaction.amount * 100 = Abs(statementItem.amount) * 1000

\* C19: every statement whose account resolves is mapped to a payload of type
\* deposit if its amount is positive and withdrawal otherwise (zero
\* included), with the resolved ledger account in destination_id (deposit) or
\* source_id (withdrawal) and the other field absent, and amount = |amount| / 100
C19_PayloadTypeSideAmount ==
    \A d \in DOMAIN reqs :
        (Mapped(d) /\ reqs[d].post > 0) =>
            /\ (Resolves([accounts |-> reqs[d].seen], reqs[d].account))
                  <=> reqs[d].transaction # Null
            /\ reqs[d].transaction # Null =>
                  WellFormedFor(reqs[d].transaction, reqs[d].account, reqs[d].statementItem)

\* a statement of amount zero was mapped: to a withdrawal
C19_ZeroIsWithdrawal ==
    \E d \in DOMAIN reqs :
        /\ reqs[d].post > 0
        /\ reqs[d].transaction # Null
        /\ reqs[d].statementItem.amount = 0
        /\ reqs[d].transaction.type = "withdrawal"

\* the body of call d was not a StatementItem event with account and statement
NotAStatementEvent(r) == r.type # "StatementItem" \/ r.statementItem = Null

\* C20: a call whose body is of another type, or whose data is malformed, is
\* rejected at the parse: the step that receives it changes nothing but the
\* record of the call, and the call never reaches the mapper nor issues a
\* creation call
C20_RejectedAtBoundary ==
    /\ [][(Len(reqs') > Len(reqs) /\ NotAStatementEvent(reqs'[Len(reqs')])) =>
            /\ reqs'[Len(reqs')].pc = "rejected"
            /\ UNCHANGED <<bank, ledger, cache, clientData, fireflyAccounts, proc,
                           rec, posts, faults>>]_vars
    /\ [](\A d \in DOMAIN reqs :
            NotAStatementEvent(reqs[d]) =>
                /\ reqs[d].pc = "rejected"
                /\ reqs[d].seen = <<>>
                /\ reqs[d].transaction = Null
                /\ reqs[d].post = 0
                /\ \A i \in DOMAIN posts : posts[i].by = "live" =>
                      \E e \in DOMAIN reqs : e # d /\ reqs[e].post = i)

\* a call of another type and a call without the statement were both rejected
C20_BothRejected ==
    \E d1, d2 \in DOMAIN reqs :
        /\ reqs[d1].type = "Ping" /\ reqs[d1].pc = "rejected"
        /\ reqs[d2].type = "StatementItem" /\ reqs[d2].statementItem = Null
        /\ reqs[d2].pc = "rejected"


\* setWebook is called in this step
RegistrationIssued == proc'.up /\ proc'.calls > (IF proc.up THEN proc.calls ELSE 0)

\* recover() has returned or thrown
RecoverSettled(r) == r.pc \in {"done", "failed"}

\* the registration is issued only after recover() has returned or thrown
C21_IssuedAfterRecovery == [][RegistrationIssued => RecoverSettled(rec')]_vars

\* the registration is issued at most once per process
C21_IssuedAtMostOnce == proc.calls <= 1

\* a failed registration leaves the process and its server as they are
C21_FailureDoesNotStopServer ==
    [][(proc.webhook = "pending" /\ proc'.webhook = "failed")
        => (proc'.up /\ proc'.listening = proc.listening /\ rec' = rec)]_vars

\* the registration is issued only once the server is listening
C21_IssuedWhileListening == [][RegistrationIssued => proc.listening]_vars

\* C21: the call that registers the webhook with the bank is issued only after
\* recover() has returned or thrown and only once the HTTP server is
\* listening, at most once per process, and a failed registration does not
\* stop the server
C21_WebhookRegistrationOrdering ==
    /\ C21_IssuedAfterRecovery
    /\ C21_IssuedWhileListening
    /\ [](C21_IssuedAtMostOnce)
    /\ C21_FailureDoesNotStopServer

\* the registration went out while the server was not yet listening
C21_RegisteredBeforeListening ==
    proc.up /\ proc.webhook = "pending" /\ ~proc.listening

====
